---- MODULE Spec2Model ----
(***************************************************************************)
(* Image Renamer (src/app.py): filename ID detection, rename-plan          *)
(* construction, collision-safe target naming and the in-place executor.   *)
(*                                                                         *)
(* File names are sequences of one-character strings, so that stem/suffix  *)
(* splitting, digit parsing, zero padding and "_<i>" suffixing are         *)
(* computed as the code computes them.  A folder is a function from the    *)
(* names present in it to the identity of the bytes each name holds.       *)
(***************************************************************************)
EXTENDS Integers, Sequences, FiniteSets, TLC

VARIABLES
    name,           \* detect_id: the argument
    detected,       \* detect_id: the returned value ("pending" before the call)
    base_num,       \* safe_target_name: argument base_num
    ext,            \* safe_target_name: argument ext
    i,              \* safe_target_name: loop counter i (0 while the unsuffixed name is tried)
    candidate,      \* safe_target_name: the returned path (<<>> before the return)
    folder,         \* the folder: name -> identity of the bytes stored under it
    backupDir,      \* the backup directory: Absent, or name -> identity of bytes
    platform,       \* "posix" (rename replaces an existing target) or "windows" (it raises)
    files,          \* the list of paths handed to build_plan
    entries,        \* the plan: sequence of [path, id, final_id, target]
    pc,             \* position of the running operation
    idx,            \* perform_rename: index of the entry the for loop is at
    dry_run,        \* perform_rename: argument dry_run
    backup,         \* perform_rename: argument backup
    log,            \* perform_rename: the log list
    renamed_count,  \* perform_rename: the counter returned
    folder0,        \* the folder as it was when perform_rename was called
    backupDir0      \* the backup directory as it was when perform_rename was called

vars == <<name, detected, base_num, ext, i, candidate, folder, backupDir, platform,
          files, entries, pc, idx, dry_run, backup, log, renamed_count, folder0,
          backupDir0>>

detectVars == <<name, detected>>
nameVars == <<base_num, ext, i, candidate>>
execVars == <<backupDir, platform, idx, dry_run, backup, log, renamed_count, folder0,
              backupDir0>>

(***************************************************************************)
(* Characters                                                              *)
(***************************************************************************)

\* A decimal digit outside ASCII (ARABIC-INDIC DIGIT THREE): Python's \d and
\* int() accept it, the class [0-9] does not.
ArabicThree == "U+0663"

AsciiDigits == <<"0", "1", "2", "3", "4", "5", "6", "7", "8", "9">>

Uppers == <<"A", "B", "C", "D", "E", "F", "G", "H", "I", "J", "K", "L", "M",
            "N", "O", "P", "Q", "R", "S", "T", "U", "V", "W", "X", "Y", "Z">>

Lowers == <<"a", "b", "c", "d", "e", "f", "g", "h", "i", "j", "k", "l", "m",
            "n", "o", "p", "q", "r", "s", "t", "u", "v", "w", "x", "y", "z">>

\* Code-point order of the characters used: '.' < digits < upper < '_' < lower < U+0663.
CharOrder == <<".">> \o AsciiDigits \o Uppers \o <<"_">> \o Lowers \o <<ArabicThree>>

Ord(c) == CHOOSE k \in 1..Len(CharOrder) : CharOrder[k] = c

\* [0-9]
IsAsciiDigit(c) == \E k \in 1..Len(AsciiDigits) : AsciiDigits[k] = c

\* \d of a str pattern: every Unicode decimal digit
IsDecimalDigit(c) == IsAsciiDigit(c) \/ c = ArabicThree

\* the digit value int() gives a decimal digit
DigitVal(c) == IF c = ArabicThree THEN 3 ELSE (CHOOSE k \in 1..Len(AsciiDigits) : AsciiDigits[k] = c) - 1

\* str.lower() on one character
LowerChar(c) == IF \E k \in 1..Len(Uppers) : Uppers[k] = c THEN Lowers[CHOOSE k \in 1..Len(Uppers) : Uppers[k] = c] ELSE c

\* str.lower()
LowerStr(s) == [k \in 1..Len(s) |-> LowerChar(s[k])]

\* int(<digits>): base-10 value of s[p..q]
RECURSIVE IntOf(_, _, _)
IntOf(s, p, q) == IF q < p THEN 0 ELSE 10 * IntOf(s, p, q - 1) + DigitVal(s[q])

(***************************************************************************)
(* detect_id                                                               *)
(***************************************************************************)

None == -1

\* length of the run matched by \d+ at position p (0: no match)
RECURSIVE DecimalRunLen(_, _)
DecimalRunLen(s, p) == IF p <= Len(s) /\ IsDecimalDigit(s[p]) THEN 1 + DecimalRunLen(s, p + 1) ELSE 0

\* length of the run matched greedily by [0-9]+ at position p (0: no match)
RECURSIVE AsciiRunLen(_, _)
AsciiRunLen(s, p) == IF p <= Len(s) /\ IsAsciiDigit(s[p]) THEN 1 + AsciiRunLen(s, p + 1) ELSE 0

UltraToken == <<"u", "l", "t", "r", "a">>

\* (?=Ultra) under re.IGNORECASE at position p
LookaheadUltra(s, p) == p + Len(UltraToken) - 1 <= Len(s) /\ \A k \in 1..Len(UltraToken) : LowerChar(s[p + k - 1]) = UltraToken[k]

\* ([0-9]+)(?=Ultra) tried at start position p: the lengths the group may take,
\* longest first (greedy, then backtracking)
UltraMatchLens(s, p) == {n \in 1..AsciiRunLen(s, p) : LookaheadUltra(s, p + n)}

Max(S) == CHOOSE x \in S : \A y \in S : y <= x

Min(S) == CHOOSE x \in S : \A y \in S : x <= y

\* re.search: the leftmost start position at which the pattern matches
UltraMatchStarts(s) == {p \in 1..Len(s) : UltraMatchLens(s, p) # {}}

detect_id(s) ==
    IF DecimalRunLen(s, 1) > 0
    THEN IntOf(s, 1, DecimalRunLen(s, 1))
    ELSE IF UltraMatchStarts(s) # {}
         THEN LET p == Min(UltraMatchStarts(s))
                  n == Max(UltraMatchLens(s, p))
              IN IntOf(s, p, p + n - 1)
         ELSE None

(***************************************************************************)
(* pathlib and formatting                                                  *)
(***************************************************************************)

\* name.rfind('.'): the position of the last dot, 0 when there is none
LastDot(s) == IF \E k \in 1..Len(s) : s[k] = "." THEN Max({k \in 1..Len(s) : s[k] = "."}) ELSE 0

\* PurePath.suffix: from the last dot on, unless the dot is the first or the last character
Suffix(s) == IF 1 < LastDot(s) /\ LastDot(s) < Len(s) THEN SubSeq(s, LastDot(s), Len(s)) ELSE <<>>

\* PurePath.stem
Stem(s) == IF 1 < LastDot(s) /\ LastDot(s) < Len(s) THEN SubSeq(s, 1, LastDot(s) - 1) ELSE s

\* str(n) for n >= 0
RECURSIVE Str(_)
Str(n) == IF n < 10 THEN <<AsciiDigits[n + 1]>> ELSE Str(n \div 10) \o <<AsciiDigits[(n % 10) + 1]>>

\* the field width of the format specification 03d
PadWidth == 3

RECURSIVE ZeroPad(_, _)
ZeroPad(s, w) == IF Len(s) >= w THEN s ELSE ZeroPad(<<"0">> \o s, w)

three_digit(n) == ZeroPad(Str(n), PadWidth)

IMAGE_EXTS == {<<".", "p", "n", "g">>, <<".", "j", "p", "g">>, <<".", "j", "p", "e", "g">>,
               <<".", "g", "i", "f">>, <<".", "w", "e", "b", "p">>, <<".", "t", "i", "f", "f">>}

(***************************************************************************)
(* safe_target_name                                                        *)
(***************************************************************************)

\* Path.exists() of folder / n
Exists(dir, n) == n \in DOMAIN dir

\* the first candidate, f"{base_num}{ext}"
FirstCandidate(b, e) == b \o e

\* a search whose first suffix is _2
SuffixedCandidate_OffByOne(b, k, e) == b \o <<"_">> \o Str(k + 1) \o e

\* the candidate of loop round k, f"{base_num}_{i}{ext}"
SuffixedCandidate(b, k, e) == b \o <<"_">> \o Str(k) \o e

RECURSIVE SafeLoop(_, _, _, _)
SafeLoop(dir, b, e, k) == IF ~Exists(dir, SuffixedCandidate(b, k, e)) THEN SuffixedCandidate(b, k, e) ELSE SafeLoop(dir, b, e, k + 1)

safe_target_name(dir, b, e) == IF ~Exists(dir, FirstCandidate(b, e)) THEN FirstCandidate(b, e) ELSE SafeLoop(dir, b, e, 1)

(***************************************************************************)
(* scan_folder                                                             *)
(***************************************************************************)

\* s < t in Python's string order
RECURSIVE StrLess(_, _)
StrLess(s, t) ==
    IF t = <<>> THEN FALSE
    ELSE IF s = <<>> THEN TRUE
    ELSE IF s[1] # t[1] THEN Ord(s[1]) < Ord(t[1])
    ELSE StrLess(Tail(s), Tail(t))

\* p.is_file() and p.suffix.lower() in exts (every entry of the folder is a regular file)
IsImage(n) == LowerStr(Suffix(n)) \in IMAGE_EXTS

ImageFiles(dir) == {n \in DOMAIN dir : IsImage(n)}

\* the orderings of the set S
Orderings(S) == {f \in [1..Cardinality(S) -> S] : \A a, b \in 1..Cardinality(S) : a # b => f[a] # f[b]}

\* files.sort(key=lambda p: p.name.lower()): a stable sort of iterdir()'s order,
\* which is arbitrary, so names with equal keys may come out in either order
SortedScans(dir) == {f \in Orderings(ImageFiles(dir)) : \A a \in 1..(Len(f) - 1) : ~StrLess(LowerStr(f[a + 1]), LowerStr(f[a]))}

(***************************************************************************)
(* build_plan                                                              *)
(***************************************************************************)

\* first loop: the detected id of every file, and the set used
DetectedIds(fs) == [k \in 1..Len(fs) |-> detect_id(Stem(fs[k]))]

\* a plan that forgets the detected numbers
UsedIds_Empty(ids) == {}

UsedIds(ids) == {ids[k] : k \in 1..Len(ids)} \ {None}

\* a cursor that is never moved past the numbers in use
NextUnused_NoSkip(used, n) == n

\* while next_num in used: next_num += 1
RECURSIVE NextUnused(_, _)
NextUnused(used, n) == IF n \in used THEN NextUnused(used, n + 1) ELSE n

\* second loop, from entry k on: the final ids
RECURSIVE AssignFinal(_, _, _, _)
AssignFinal(ids, k, used, next_num) ==
    IF k > Len(ids) THEN <<>>
    ELSE IF ids[k] # None
         THEN <<ids[k]>> \o AssignFinal(ids, k + 1, used, next_num)
         ELSE <<next_num>> \o AssignFinal(ids, k + 1, used \cup {next_num}, NextUnused(used \cup {next_num}, next_num))

\* next_num = 1 before the first while loop
FirstNum == 1

FinalIds(ids) == AssignFinal(ids, 1, UsedIds(ids), NextUnused(UsedIds(ids), FirstNum))

\* third loop: the target of one entry, looked up in the folder on disk
TargetOf(dir, path, final_id) == safe_target_name(dir, three_digit(final_id), LowerStr(Suffix(path)))

build_plan(fs, dir) ==
    LET ids == DetectedIds(fs)
        finals == FinalIds(ids)
    IN [k \in 1..Len(fs) |-> [path |-> fs[k], id |-> ids[k], final_id |-> finals[k],
                              target |-> TargetOf(dir, fs[k], finals[k])]]

(***************************************************************************)
(* Bounds and input sets                                                   *)
(***************************************************************************)

\* most pieces a stem given to detect_id is made of
MaxPieces == 5

\* largest "_<i>" suffix among the names a folder given to safe_target_name may hold
MaxSuffix == 3

\* most entries a folder holds
MaxFiles == 3

Pieces == {<<"0">>, <<"7">>, <<ArabicThree>>, <<"x">>, <<"U", "l", "t", "r", "a">>,
           <<"u", "L", "T", "R", "A">>, <<"U", "l", "t", "r">>}

RECURSIVE Concat(_)
Concat(ss) == IF ss = <<>> THEN <<>> ELSE Head(ss) \o Concat(Tail(ss))

Stems == {Concat(ss) : ss \in UNION {[1..n -> Pieces] : n \in 0..MaxPieces}}

Png == <<".", "p", "n", "g">>

Jpg == <<".", "j", "p", "g">>

Bases == {<<"0", "0", "1">>, <<"0", "0", "3">>}

NameUniverse == {FirstCandidate(b, Png) : b \in Bases} \cup {SuffixedCandidate(b, k, Png) : b \in Bases, k \in 1..MaxSuffix}

FolderUniverse == {<<"3", "a">> \o Png, <<"3", "b">> \o Png, <<"0", "0", "3">> \o Jpg, <<"a">> \o Png,
                   <<"b">> \o Png, <<"0", "0", "1">> \o Png, <<"x", "7", "U", "l", "t", "r", "a", ".", "P", "N", "G">>,
                   <<"7">> \o Png, <<"0", "0", "1", "_", "1">> \o Png, <<"a", ".", "t", "x", "t">>}

\* a directory holding the names of S, each with its own bytes
DirOf(S) == [n \in S |-> n]

NoDir == [exists |-> FALSE, files |-> DirOf({})]

\* a backup directory left by an earlier pass: a.png, with the bytes it had then
OldBackup == [exists |-> TRUE, files |-> [n \in {<<"a">> \o Png} |-> <<"o", "l", "d">>]]

IdleDetect == name = <<>> /\ detected = None

IdleName == base_num = <<>> /\ ext = <<>> /\ i = 0 /\ candidate = <<>>

IdlePlan == files = <<>> /\ entries = <<>>

IdleExec ==
    /\ backupDir = NoDir /\ backupDir0 = NoDir /\ platform = "posix" /\ idx = 0
    /\ dry_run = TRUE /\ backup = FALSE /\ log = <<>> /\ renamed_count = 0
    /\ folder0 = DirOf({})

(***************************************************************************)
(* SpecDetect: detect_id applied to a stem                                 *)
(***************************************************************************)

InitDetect ==
    /\ name \in Stems /\ detected = None /\ pc = "detect"
    /\ folder = DirOf({}) /\ IdleName /\ IdlePlan /\ IdleExec

DetectCall ==
    /\ pc = "detect"
    /\ detected' = detect_id(name)
    /\ pc' = "detected"
    /\ UNCHANGED <<name, folder, files, entries, nameVars, execVars>>

NextDetect == DetectCall

SpecDetect == InitDetect /\ [][NextDetect]_vars

(***************************************************************************)
(* SpecName: safe_target_name, one existence test per step                 *)
(***************************************************************************)

InitName ==
    /\ \E S \in SUBSET NameUniverse : folder = DirOf(S)
    /\ base_num \in Bases /\ ext \in {Png, Jpg}
    /\ i = 0 /\ candidate = <<>> /\ pc = "name_first"
    /\ IdleDetect /\ IdlePlan /\ IdleExec

\* lines 34-37
NameFirst ==
    /\ pc = "name_first"
    /\ IF ~Exists(folder, FirstCandidate(base_num, ext))
       THEN candidate' = FirstCandidate(base_num, ext) /\ pc' = "name_returned" /\ i' = i
       ELSE i' = 1 /\ pc' = "name_loop" /\ candidate' = candidate
    /\ UNCHANGED <<base_num, ext, folder, files, entries, detectVars, execVars>>

\* lines 38-42
NameLoop ==
    /\ pc = "name_loop"
    /\ IF ~Exists(folder, SuffixedCandidate(base_num, i, ext))
       THEN candidate' = SuffixedCandidate(base_num, i, ext) /\ pc' = "name_returned" /\ i' = i
       ELSE i' = i + 1 /\ pc' = pc /\ candidate' = candidate
    /\ UNCHANGED <<base_num, ext, folder, files, entries, detectVars, execVars>>

NextName == NameFirst \/ NameLoop

\* the call runs synchronously to its return: no step of the loop is postponed forever
SpecName == InitName /\ [][NextName]_vars /\ WF_vars(NextName)

(***************************************************************************)
(* SpecPlan: build_plan applied to the image files of a folder, in any     *)
(* order                                                                   *)
(***************************************************************************)

Folders == {DirOf(S) : S \in {T \in SUBSET FolderUniverse : Cardinality(T) <= MaxFiles}}

InitPlan ==
    /\ folder \in Folders
    /\ files \in Orderings(ImageFiles(folder))
    /\ entries = <<>> /\ pc = "plan"
    /\ IdleDetect /\ IdleName /\ IdleExec

PlanCall ==
    /\ pc = "plan"
    /\ entries' = build_plan(files, folder)
    /\ pc' = "planned"
    /\ UNCHANGED <<folder, files, detectVars, nameVars, execVars>>

NextPlan == PlanCall

SpecPlan == InitPlan /\ [][NextPlan]_vars

(***************************************************************************)
(* Spec: one run of the page script on a folder: scan_folder, build_plan,  *)
(* then perform_rename with the options chosen in the sidebar              *)
(***************************************************************************)

Init ==
    /\ folder \in Folders
    /\ backupDir \in {NoDir, [exists |-> TRUE, files |-> DirOf({})], OldBackup}
    /\ platform \in {"posix", "windows"}
    /\ files = <<>> /\ entries = <<>> /\ pc = "scan"
    /\ backupDir0 = backupDir /\ folder0 = folder
    /\ idx = 0 /\ dry_run = TRUE /\ backup = FALSE /\ log = <<>> /\ renamed_count = 0
    /\ IdleDetect /\ IdleName

\* files = scan_folder(folder)
ScanFolder ==
    /\ pc = "scan"
    /\ files' \in SortedScans(folder)
    /\ pc' = "scanned"
    /\ UNCHANGED <<folder, entries, detectVars, nameVars, execVars>>

\* entries = build_plan(files)
BuildPlan ==
    /\ pc = "scanned"
    /\ entries' = build_plan(files, folder)
    /\ pc' = "planned"
    /\ UNCHANGED <<folder, files, detectVars, nameVars, execVars>>

LogLine(kind, src, tgt) == [kind |-> kind, src |-> src, tgt |-> tgt]

\* perform_rename is entered: lines 83-87.  mkdir may raise (mkdirOK = FALSE), which
\* ends the call before the loop.
CallPerformRename ==
    /\ pc = "planned"
    /\ \E d \in BOOLEAN, b \in BOOLEAN, mkdirOK \in BOOLEAN :
        /\ b \/ mkdirOK
        /\ dry_run' = d /\ backup' = b
        /\ IF b
           THEN IF mkdirOK
                THEN /\ backupDir' = [backupDir EXCEPT !.exists = TRUE]
                     /\ log' = <<LogLine("Backup folder", <<>>, <<>>)>>
                     /\ pc' = "loop"
                ELSE /\ backupDir' = backupDir /\ log' = <<>> /\ pc' = "raised"
           ELSE /\ backupDir' = backupDir /\ log' = <<>> /\ pc' = "loop"
    /\ idx' = 1 /\ renamed_count' = 0
    /\ folder0' = folder /\ backupDir0' = backupDir
    /\ UNCHANGED <<folder, files, entries, platform, detectVars, nameVars>>

\* a backup stored under the new name
BackupName_Target(e) == e.target

\* bpath = backup_dir / src.name
BackupName(e) == e.path

\* shutil.copy2(src, bpath): the bytes of src stored under name bname of the backup directory
CopyInto(dir, src, bname) == [dir EXCEPT !.files = [n \in DOMAIN dir.files \cup {bname} |-> IF n = bname THEN folder[src] ELSE dir.files[n]]]

\* a rename that leaves the source in place (a copy)
Renamed_KeepsSource(dir, src, tgt) == [n \in DOMAIN dir \cup {tgt} |-> IF n = tgt THEN dir[src] ELSE dir[n]]

\* src.rename(tgt)
Renamed(dir, src, tgt) == [n \in (DOMAIN dir \ {src}) \cup {tgt} |-> IF n = tgt THEN dir[src] ELSE dir[n]]

\* the for loop reaches an entry: lines 89-98
BeginEntry ==
    /\ pc = "loop" /\ idx <= Len(entries)
    /\ LET src == entries[idx].path
           tgt == entries[idx].target
       IN IF src = tgt
          THEN /\ log' = Append(log, LogLine("SKIP (same)", src, src))
               /\ idx' = idx + 1 /\ pc' = pc
          ELSE IF dry_run
          THEN /\ log' = Append(log, LogLine("DRY", src, tgt))
               /\ idx' = idx + 1 /\ pc' = pc
          ELSE /\ pc' = IF backup THEN "copy" ELSE "rename"
               /\ UNCHANGED <<log, idx>>
    /\ UNCHANGED <<folder, backupDir, renamed_count, files, entries, platform, dry_run,
                   backup, folder0, backupDir0, detectVars, nameVars>>

\* lines 99-102, and 107-108 when copy2 raises (copyOK is the operating system's
\* answer: permission denied, disk full, ...)
CopyBackup ==
    /\ pc = "copy"
    /\ LET src == entries[idx].path
           tgt == entries[idx].target
       IN \E copyOK \in BOOLEAN :
            IF copyOK /\ Exists(folder, src)
            THEN /\ backupDir' = CopyInto(backupDir, src, BackupName(entries[idx]))
                 /\ log' = Append(log, LogLine("Backed up", src, BackupName(entries[idx])))
                 /\ pc' = "rename" /\ idx' = idx
            ELSE /\ log' = Append(log, LogLine("ERROR", src, tgt))
                 /\ pc' = "loop" /\ idx' = idx + 1
                 /\ backupDir' = backupDir
    /\ UNCHANGED <<folder, renamed_count, files, entries, platform, dry_run, backup,
                   folder0, backupDir0, detectVars, nameVars>>

\* lines 104-106, and 107-108 when rename raises (renameOK is the operating system's
\* answer); a rename onto an existing target replaces it on POSIX and raises
\* FileExistsError on Windows
RenameFile ==
    /\ pc = "rename"
    /\ LET src == entries[idx].path
           tgt == entries[idx].target
       IN \E renameOK \in BOOLEAN :
            IF renameOK /\ Exists(folder, src) /\ (Exists(folder, tgt) => platform = "posix")
            THEN /\ folder' = Renamed(folder, src, tgt)
                 /\ log' = Append(log, LogLine("RENAMED", src, tgt))
                 /\ renamed_count' = renamed_count + 1
            ELSE /\ log' = Append(log, LogLine("ERROR", src, tgt))
                 /\ UNCHANGED <<folder, renamed_count>>
    /\ pc' = "loop" /\ idx' = idx + 1
    /\ UNCHANGED <<backupDir, files, entries, platform, dry_run, backup, folder0,
                   backupDir0, detectVars, nameVars>>

\* return log, renamed_count
ReturnFromRename ==
    /\ pc = "loop" /\ idx > Len(entries)
    /\ pc' = "done"
    /\ UNCHANGED <<folder, files, entries, detectVars, nameVars, execVars>>

Next == ScanFolder \/ BuildPlan \/ CallPerformRename \/ BeginEntry \/ CopyBackup \/ RenameFile \/ ReturnFromRename

Spec == Init /\ [][Next]_vars

(***************************************************************************)
(* Properties of detect_id (SpecDetect)                                    *)
(***************************************************************************)

\* the maximal runs of decimal digits of s, as <<first, last>> positions
DigitRuns(s) ==
    {r \in (1..Len(s)) \X (1..Len(s)) :
        /\ r[1] <= r[2]
        /\ \A k \in r[1]..r[2] : IsDecimalDigit(s[k])
        /\ (r[1] = 1 \/ ~IsDecimalDigit(s[r[1] - 1]))
        /\ (r[2] = Len(s) \/ ~IsDecimalDigit(s[r[2] + 1]))}

\* the five characters after position q spell "ultra" in some letter case
FollowedByUltra(s, q) == q + 5 <= Len(s) /\ LowerStr(SubSeq(s, q + 1, q + 5)) = <<"u", "l", "t", "r", "a">>

UltraRuns(s) == {r \in DigitRuns(s) : FollowedByUltra(s, r[2])}

\* the digit run a set of runs starts with
LeftmostRun(R) == CHOOSE r \in R : \A q \in R : r[1] <= q[1]

\* the identifier the priority rule gives a stem
RuleId(s) ==
    IF s # <<>> /\ IsDecimalDigit(s[1])
    THEN LET r == LeftmostRun(DigitRuns(s)) IN IntOf(s, r[1], r[2])
    ELSE IF UltraRuns(s) # {}
         THEN LET r == LeftmostRun(UltraRuns(s)) IN IntOf(s, r[1], r[2])
         ELSE None

IsAsciiStem(s) == \A k \in 1..Len(s) : IsDecimalDigit(s[k]) => IsAsciiDigit(s[k])

\* C7: detect_id returns, for every stem, the value of the leading digit run if the
\* stem starts with a digit, else the value of the leftmost digit run immediately
\* followed by "Ultra" in any letter case, else None.
C7_DetectPriority == pc = "detected" => detected = RuleId(name)

\* On stems whose decimal digits are all ASCII digits detect_id follows the rule.
DetectPriorityOnAscii == (pc = "detected" /\ IsAsciiStem(name)) => detected = RuleId(name)

(***************************************************************************)
(* Properties of safe_target_name (SpecName)                               *)
(***************************************************************************)

\* the sequence base+ext, base_1+ext, base_2+ext, ... (element 0 is the unsuffixed name)
NameSequence(b, k, e) == IF k = 0 THEN b \o e ELSE b \o <<"_">> \o Str(k) \o e

FirstFreeReturned ==
    pc = "name_returned" =>
        \E k \in 0..Cardinality(DOMAIN folder) :
            /\ candidate = NameSequence(base_num, k, ext)
            /\ candidate \notin DOMAIN folder
            /\ \A j \in 0..(k - 1) : NameSequence(base_num, j, ext) \in DOMAIN folder

\* C8: safe_target_name returns the first name of base+ext, base_1+ext, ... that is
\* not in the folder (the returned name is absent, every earlier candidate is
\* present), and the search terminates.
C8_FirstFreeName == []FirstFreeReturned /\ <>(pc = "name_returned")

C8_Witness == pc = "name_returned" /\ i = 2 /\ candidate = SuffixedCandidate(base_num, 2, ext)

\* the stepwise search and the operator build_plan uses return the same name
SafeTargetNameAgrees == pc = "name_returned" => candidate = safe_target_name(folder, base_num, ext)

(***************************************************************************)
(* Properties of build_plan (SpecPlan)                                     *)
(***************************************************************************)

Planned == pc = "planned"

Positions == 1..Len(entries)

\* the detected ids of the batch
BatchDetected == {detect_id(Stem(files[k])) : k \in 1..Len(files)} \ {None}

\* how many of the first k files have no detected id
UndetectedUpTo(k) == Cardinality({j \in 1..k : detect_id(Stem(files[j])) = None})

ExampleFiles == <<<<"b">> \o Png, <<"0", "0", "3">> \o Jpg, <<"a">> \o Png>>

\* C1: the target names of a plan are pairwise distinct.
C1_TargetsDistinct == Planned => \A a, b \in Positions : a # b => entries[a].target # entries[b].target

\* C4: one entry per file in input order; a detected id is kept; the r-th file without
\* a detected id gets the r-th smallest positive integer that is no detected id of
\* the batch (b.png, 003.jpg, a.png: 1, 3, 2).
C4_FinalIds ==
    Planned =>
        /\ Len(entries) = Len(files)
        /\ \A k \in Positions : entries[k].path = files[k]
        /\ \A k \in Positions :
            LET d == detect_id(Stem(files[k]))
                n == entries[k].final_id
            IN IF d # None
               THEN n = d
               ELSE /\ n >= 1
                    /\ n \notin BatchDetected
                    /\ Cardinality({m \in 1..n : m \notin BatchDetected}) = UndetectedUpTo(k)
        /\ files = ExampleFiles => [k \in Positions |-> entries[k].final_id] = <<1, 3, 2>>

C4_Witness == Planned /\ files = ExampleFiles /\ [k \in Positions |-> entries[k].final_id] = <<1, 3, 2>>

\* the unsuffixed name of entry k: final_id zero-padded to 3 digits, lowercased extension
PlainName(k) == three_digit(entries[k].final_id) \o LowerStr(Suffix(entries[k].path))

\* C5: b.png, 003.jpg, a.png alone in a folder get 001.png, 003.jpg, 002.png; an entry
\* gets its unsuffixed name whenever no other file of the folder and no other entry
\* of the plan holds it, also when it is the file's own current name.
C5_PlainTargetWhenFree ==
    Planned =>
        /\ (files = ExampleFiles /\ DOMAIN folder = {files[k] : k \in 1..Len(files)})
                => [k \in Positions |-> entries[k].target] = <<<<"0", "0", "1">> \o Png, <<"0", "0", "3">> \o Jpg, <<"0", "0", "2">> \o Png>>
        /\ \A k \in Positions :
            (/\ PlainName(k) \notin (DOMAIN folder \ {entries[k].path})
             /\ \A j \in Positions \ {k} : entries[j].target # PlainName(k))
                => entries[k].target = PlainName(k)

\* C6 as stated: the final_id values of a plan are pairwise distinct.
C6_FinalIdsDistinct == Planned => \A a, b \in Positions : a # b => entries[a].final_id # entries[b].final_id

\* C6: two entries of a plan have the same final_id only when both stems yield a
\* detected id and the two detected ids are equal.
C6_SharedOnlyIfSameDetected ==
    Planned =>
        \A a, b \in Positions :
            (a # b /\ entries[a].final_id = entries[b].final_id)
                => /\ detect_id(Stem(files[a])) # None
                   /\ detect_id(Stem(files[a])) = detect_id(Stem(files[b]))

C6_Witness ==
    /\ Planned
    /\ \E a, b \in Positions : a # b /\ entries[a].final_id = entries[b].final_id
    /\ \E c \in Positions : detect_id(Stem(files[c])) = None /\ entries[c].final_id > 1

(***************************************************************************)
(* Properties of perform_rename (Spec)                                     *)
(***************************************************************************)

InPass == pc \in {"loop", "copy", "rename", "done"}

\* the log lines that close an entry, one per entry processed
EntryKinds == {"SKIP (same)", "DRY", "RENAMED", "ERROR"}

IsEntryLine(l) == l.kind \in EntryKinds

EntryLines == SelectSeq(log, IsEntryLine)

\* the position in the log of the line that closes entry k
LinePos(k) == CHOOSE p \in 1..Len(log) : IsEntryLine(log[p]) /\ Len(SelectSeq(SubSeq(log, 1, p), IsEntryLine)) = k

\* C2: when a rename is carried out its target path holds no file, and after a
\* non-dry pass the folder holds as many image files as before it.
C2_NoOverwrite ==
    /\ pc = "rename" => ~Exists(folder, entries[idx].target)
    /\ (pc = "done" /\ ~dry_run) => Cardinality(ImageFiles(folder)) = Cardinality(ImageFiles(folder0))

\* C3: a dry run leaves the filesystem unchanged (no file renamed or copied, no
\* directory created), returns 0 and logs only intended actions.
C3_DryRunNoMutation ==
    (InPass /\ dry_run) =>
        /\ folder = folder0
        /\ backupDir = backupDir0
        /\ renamed_count = 0
        /\ \A p \in 1..Len(log) : log[p].kind \in {"DRY", "SKIP (same)", "Backup folder"}

\* C9: in a non-dry pass the entries are processed in plan order, each closed by one
\* log line; an entry whose copy or rename failed has an ERROR line and its file
\* still under its name, the entries after it are processed all the same, a renamed
\* entry stays renamed, and renamed_count is the number of renames that succeeded.
C9_FailuresIsolated ==
    (InPass /\ ~dry_run) =>
        /\ Len(EntryLines) = idx - 1
        /\ pc = "done" => Len(EntryLines) = Len(entries)
        /\ \A k \in 1..Len(EntryLines) :
            /\ EntryLines[k].src = entries[k].path
            /\ \/ EntryLines[k].kind = "SKIP (same)" /\ entries[k].path = entries[k].target
               \/ /\ EntryLines[k].kind = "RENAMED"
                  /\ EntryLines[k].tgt = entries[k].target
                  /\ ~Exists(folder, entries[k].path)
                  /\ Exists(folder, entries[k].target)
               \/ /\ EntryLines[k].kind = "ERROR"
                  /\ EntryLines[k].tgt = entries[k].target
                  /\ Exists(folder, entries[k].path)
                  /\ folder[entries[k].path] = folder0[entries[k].path]
        /\ renamed_count = Cardinality({k \in 1..Len(EntryLines) : EntryLines[k].kind = "RENAMED"})
        /\ renamed_count = Cardinality(DOMAIN folder0 \ DOMAIN folder)

C9_Witness ==
    /\ pc = "done" /\ ~dry_run
    /\ [k \in 1..Len(EntryLines) |-> EntryLines[k].kind] = <<"RENAMED", "ERROR", "RENAMED">>

\* C10: with backup enabled the copy under the original name is in the backup folder
\* before the rename is attempted; an entry whose copy failed is not renamed and
\* keeps its name; every renamed file has its copy in the backup folder.
C10_BackupBeforeRename ==
    (InPass /\ ~dry_run /\ backup) =>
        /\ pc = "rename" =>
            /\ Exists(backupDir.files, entries[idx].path)
            /\ backupDir.files[entries[idx].path] = folder0[entries[idx].path]
            /\ log[Len(log)] = LogLine("Backed up", entries[idx].path, entries[idx].path)
        /\ \A k \in 1..Len(EntryLines) :
            LET src == entries[k].path
                before == log[LinePos(k) - 1]
            IN /\ EntryLines[k].kind = "RENAMED" =>
                    /\ before = LogLine("Backed up", src, src)
                    /\ Exists(backupDir.files, src)
                    /\ backupDir.files[src] = folder0[src]
               /\ (EntryLines[k].kind = "ERROR" /\ before.kind # "Backed up") =>
                    /\ Exists(folder, src) /\ folder[src] = folder0[src]

C10_Witness ==
    /\ pc = "done" /\ ~dry_run /\ backup
    /\ \E k \in 1..Len(EntryLines) : EntryLines[k].kind = "RENAMED"
    /\ \E k \in 1..Len(EntryLines) : EntryLines[k].kind = "ERROR" /\ log[LinePos(k) - 1].kind # "Backed up"

====
